---- MODULE Spec2Model ----
(***************************************************************************)
(* A model of the legacy DocumentDB MCP tools:                             *)
(*   - query_on_different_collections (tools/document.py), the             *)
(*     application-level join of two fetched document sets;                *)
(*   - optimize_find_query / optimize_count_query /                        *)
(*     optimize_aggregate_query (tools/workflow.py), the advisor that      *)
(*     bundles explain output, its analysis and index/collection stats;    *)
(*   - normalize_query_shape (tools/workflow.py).                          *)
(*                                                                         *)
(* Python values are tagged records [t, v]: None, int, list, dict.  A      *)
(* document (a Python dict) is a function from field names to tagged       *)
(* values; dict equality in Python ignores insertion order, as function    *)
(* equality does.                                                          *)
(***************************************************************************)
EXTENDS Integers, Sequences, FiniteSets, TLC

VARIABLES
    \* ---- query_on_different_collections
    pc,            \* position in the join call
    local_field,   \* the local_field argument, as its "."-separated segments
    left_resp,     \* value returned by the left find_documents (as returned)
    right_resp,    \* value returned by the right find_documents
    left_docs,     \* the left documents; mutated in place by the join loop
    right_docs,    \* the right documents
    right_index,   \* dict: foreign value -> list of right documents
    results,       \* list of references (positions in left_docs) appended
    pos,           \* position of the `for left in left_docs` loop
    fetches,       \* how often find_documents was called for each side
    response,      \* the value the join returns
    \* ---- optimize_*_query
    apc, aop, projection, explain_output, analysis, indexes, indexes_stats,
    collections_stats, calls, aresult,
    \* ---- normalize_query_shape
    npc, query, shape,
    history,       \* the completed normalize_query_shape calls, in order
    \* ---- query_shape
    qpc, qinput, qresult,
    \* ---- analyze_explain_metrics
    anpc, an_explain, an_projection, an_result,
    \* ---- search_for_sort, as the interpreter runs it on a plan held as
    \* objects: plan_nodes is the heap, stack the frames of the recursion
    tpc, plan_nodes, stack, tresult

joinVars == <<pc, local_field, left_resp, right_resp, left_docs, right_docs,
              right_index, results, pos, fetches, response>>
advVars == <<apc, aop, projection, explain_output, analysis, indexes,
             indexes_stats, collections_stats, calls, aresult>>
normVars == <<npc, query, shape>>
histVars == <<history>>
qsVars == <<qpc, qinput, qresult>>
anaVars == <<anpc, an_explain, an_projection, an_result>>
travVars == <<tpc, plan_nodes, stack, tresult>>
vars == <<joinVars, advVars, normVars, histVars, qsVars, anaVars, travVars>>

----------------------------------------------------------------------------
\* Bounds of the explored inputs.
MaxLeft == 2     \* left documents fetched
MaxRight == 2    \* right documents fetched
MaxArr == 2      \* elements of a left document's array field

----------------------------------------------------------------------------
\* Python values.
None == [t |-> "none", v |-> 0]
PyInt(n) == [t |-> "int", v |-> n]
PyList(s) == [t |-> "list", v |-> s]
PyDict(d) == [t |-> "dict", v |-> d]

\* dict.get(f): None when the key is absent.
Get(d, f) == IF f \in DOMAIN d THEN d[f] ELSE None

\* d[f] = x: sets or adds a key.
Put(d, f, x) == (f :> x) @@ d

SeqsUpTo(S, n) == UNION {[1..m -> S] : m \in 0..n}

\* ".".join(parts)
RECURSIVE JoinDots(_)
JoinDots(parts) ==
    IF Len(parts) = 0 THEN ""
    ELSE IF Len(parts) = 1 THEN parts[1]
    ELSE parts[1] \o "." \o JoinDots(Tail(parts))

\* list.remove(x): deletes the first element equal to x.
RECURSIVE RemoveFirst(_, _)
RemoveFirst(s, x) ==
    IF Len(s) = 0 THEN s
    ELSE IF s[1] = x THEN Tail(s)
    ELSE <<s[1]>> \o RemoveFirst(Tail(s), x)

----------------------------------------------------------------------------
\* Responses (models.py).
ErrorResponse(e) == [error |-> e]
DocumentQueryResponse(docs) == [documents |-> docs]
HasError(resp) == "error" \in DOMAIN resp

\* find_documents: the driver either raises (db.ok = FALSE, message db.msg)
\* or yields the documents db.docs; an exception becomes an ErrorResponse.
find_documents(db) ==
    IF db.ok THEN DocumentQueryResponse(db.docs) ELSE ErrorResponse(db.msg)

----------------------------------------------------------------------------
\* Arguments and collection contents explored.
foreign_field == "k"
right_collection == "right"
LocalFields == {<<"refs", "k">>, <<"uid">>}
DbErrors == {"timeout", "auth"}

\* The join-key values explored are ints or absent, so every key the loop
\* looks up is hashable and the lookups raise nothing; 6 is the foreign value
\* of no right document.
ArrayItems == {PyDict("k" :> PyInt(5)), PyDict("k" :> PyInt(6))}
LeftDocs ==
    {("_id" :> PyInt(1)) @@ ("refs" :> PyList(a)) : a \in SeqsUpTo(ArrayItems, MaxArr)}
    \cup {"_id" :> PyInt(1)}
    \cup {("_id" :> PyInt(1)) @@ ("uid" :> PyInt(n)) : n \in {5, 6}}
RightDocs ==
    { ("_id" :> PyInt(7)) @@ ("k" :> PyInt(5)) @@ ("v" :> PyInt(1)) @@ ("w" :> PyInt(3)),
      ("_id" :> PyInt(8)) @@ ("k" :> PyInt(5)) @@ ("v" :> PyInt(2)),
      ("_id" :> PyInt(9)) @@ ("v" :> PyInt(1)) }
DbOutcomes(Docs, n) ==
    {[ok |-> TRUE, docs |-> d, msg |-> ""] : d \in SeqsUpTo(Docs, n)}
    \cup {[ok |-> FALSE, docs |-> <<>>, msg |-> m] : m \in DbErrors}

----------------------------------------------------------------------------
\* The join (document.py, query_on_different_collections).

\* right_index.setdefault(key, []).append(doc) for every doc whose
\* foreign_field value is not None.
RECURSIVE BuildRightIndex(_, _, _)
BuildRightIndex(docs, i, index) ==
    IF i > Len(docs) THEN index
    ELSE LET doc == docs[i]
             key == Get(doc, foreign_field)
         IN IF key # None
            THEN BuildRightIndex(docs, i + 1,
                    Put(index, key, Append(IF key \in DOMAIN index
                                           THEN index[key] ELSE <<>>, doc)))
            ELSE BuildRightIndex(docs, i + 1, index)

\* {f"{right_collection}_{k}": v for k, v in r.items() if k != "_id"}
Prefixed(r) ==
    LET ks == DOMAIN r \ {"_id"}
    IN [n \in {right_collection \o "_" \o k : k \in ks} |->
            r[CHOOSE k \in ks : right_collection \o "_" \o k = n]]

\* item = {**item, **Prefixed(r)}
MergeItem(item, r) == Prefixed(r) @@ item

\* for r in right_index[key]: item = {**item, ...}; copied_values.append(item)
\* The loop variable `item` is rebound, so each merge starts from the
\* previous merge's result.
RECURSIVE FanOut(_, _, _, _)
FanOut(item, bucket, j, copied) ==
    IF j > Len(bucket) THEN copied
    ELSE LET merged == MergeItem(item, bucket[j])
         IN FanOut(merged, bucket, j + 1, Append(copied, PyDict(merged)))

\* for item in left_values: ... ; the list iterator advances by position
\* while left_values.remove(item) shortens the list under it.
RECURSIVE NestedScan(_, _, _, _, _)
NestedScan(left_values, idx, copied, index, qf) ==
    IF idx > Len(left_values)
    THEN [left_values |-> left_values, copied_values |-> copied]
    ELSE LET item == left_values[idx]
         IN IF item.t = "dict"
            THEN LET key == Get(item.v, qf)
                 IN IF key \notin DOMAIN index
                    THEN NestedScan(RemoveFirst(left_values, item), idx + 1,
                                    copied, index, qf)
                    ELSE NestedScan(left_values, idx + 1,
                                    FanOut(item.v, index[key], 1, copied),
                                    index, qf)
            ELSE NestedScan(left_values, idx + 1, copied, index, qf)

\* A merge in which an earlier match keeps its fields (used to test C4).
RECURSIVE MergeScalarFirstWins(_, _, _)
MergeScalarFirstWins(left, bucket, j) ==
    IF j > Len(bucket) THEN left
    ELSE MergeScalarFirstWins(left @@ Prefixed(bucket[j]), bucket, j + 1)

\* for r in right_index[key]: for k, v in r.items(): if k != "_id": left[...] = v
RECURSIVE MergeScalar(_, _, _)
MergeScalar(left, bucket, j) ==
    IF j > Len(bucket) THEN left
    ELSE MergeScalar(Prefixed(bucket[j]) @@ left, bucket, j + 1)

pre_field(lf) == JoinDots(SubSeq(lf, 1, Len(lf) - 1))
query_field(lf) == lf[Len(lf)]

JoinCall ==
    /\ pc = "idle"
    /\ \E lf \in LocalFields : local_field' = lf
    /\ pc' = "fetch_left"
    /\ UNCHANGED <<left_resp, right_resp, left_docs, right_docs, right_index,
                   results, pos, fetches, response>>
    /\ UNCHANGED <<advVars, normVars, histVars, qsVars, anaVars, travVars>>

FetchLeft ==
    /\ pc = "fetch_left"
    /\ \E db \in DbOutcomes(LeftDocs, MaxLeft) : left_resp' = find_documents(db)
    /\ fetches' = [fetches EXCEPT !.left = @ + 1]
    /\ pc' = "fetch_right"
    /\ UNCHANGED <<local_field, right_resp, left_docs, right_docs, right_index,
                   results, pos, response>>
    /\ UNCHANGED <<advVars, normVars, histVars, qsVars, anaVars, travVars>>

FetchRight ==
    /\ pc = "fetch_right"
    /\ \E db \in DbOutcomes(RightDocs, MaxRight) : right_resp' = find_documents(db)
    /\ fetches' = [fetches EXCEPT !.right = @ + 1]
    /\ pc' = "check"
    /\ UNCHANGED <<local_field, left_resp, left_docs, right_docs, right_index,
                   results, pos, response>>
    /\ UNCHANGED <<advVars, normVars, histVars, qsVars, anaVars, travVars>>

\* A left failure reported under the right side's name (used to test C7).
LeftFailedNamesRight ==
    /\ pc = "check"
    /\ HasError(left_resp)
    /\ response' = [error |-> "right query failed: " \o left_resp.error]
    /\ pc' = "done"
    /\ UNCHANGED <<local_field, left_resp, right_resp, left_docs, right_docs,
                   right_index, results, pos, fetches>>
    /\ UNCHANGED <<advVars, normVars, histVars, qsVars, anaVars, travVars>>

LeftFailed ==
    /\ pc = "check"
    /\ HasError(left_resp)
    /\ response' = [error |-> "left query failed: " \o left_resp.error]
    /\ pc' = "done"
    /\ UNCHANGED <<local_field, left_resp, right_resp, left_docs, right_docs,
                   right_index, results, pos, fetches>>
    /\ UNCHANGED <<advVars, normVars, histVars, qsVars, anaVars, travVars>>

RightFailed ==
    /\ pc = "check"
    /\ ~HasError(left_resp)
    /\ HasError(right_resp)
    /\ response' = [error |-> "right query failed: " \o right_resp.error]
    /\ pc' = "done"
    /\ UNCHANGED <<local_field, left_resp, right_resp, left_docs, right_docs,
                   right_index, results, pos, fetches>>
    /\ UNCHANGED <<advVars, normVars, histVars, qsVars, anaVars, travVars>>

\* The index is built without the test of the right response: a failed right
\* fetch is taken as an empty right side (used to test C24).
BuildIndexUnchecked ==
    /\ pc = "check"
    /\ ~HasError(left_resp)
    /\ left_docs' = left_resp.documents
    /\ right_docs' = IF HasError(right_resp) THEN <<>> ELSE right_resp.documents
    /\ right_index' = BuildRightIndex(right_docs', 1, <<>>)
    /\ results' = <<>>
    /\ pos' = 1
    /\ pc' = "join"
    /\ UNCHANGED <<local_field, left_resp, right_resp, fetches, response>>
    /\ UNCHANGED <<advVars, normVars, histVars, qsVars, anaVars, travVars>>

BuildIndex ==
    /\ pc = "check"
    /\ ~HasError(left_resp)
    /\ ~HasError(right_resp)
    /\ left_docs' = left_resp.documents
    /\ right_docs' = right_resp.documents
    /\ right_index' = BuildRightIndex(right_resp.documents, 1, <<>>)
    /\ results' = <<>>
    /\ pos' = 1
    /\ pc' = "join"
    /\ UNCHANGED <<local_field, left_resp, right_resp, fetches, response>>
    /\ UNCHANGED <<advVars, normVars, histVars, qsVars, anaVars, travVars>>

\* An inner join on the scalar branch: an unmatched left document is left out
\* (used to test C5).
JoinedLeftInner(left, lf, index) ==
    LET left_values == Get(left, pre_field(lf))
    IN IF left_values.t = "list"
       THEN LET scan == NestedScan(left_values.v, 1, <<>>, index, query_field(lf))
            IN IF Len(scan.copied_values) > 0
               THEN [doc |-> Put(left, pre_field(lf), PyList(scan.copied_values)),
                     kept |-> TRUE]
               ELSE [doc |-> Put(left, pre_field(lf), PyList(scan.left_values)),
                     kept |-> FALSE]
       ELSE LET key == Get(left, JoinDots(lf))
            IN IF key # None /\ key \in DOMAIN index
               THEN [doc |-> MergeScalar(left, index[key], 1), kept |-> TRUE]
               ELSE [doc |-> left, kept |-> FALSE]

\* One iteration of `for left in left_docs`.
JoinedLeft(left, lf, index) ==
    LET left_values == Get(left, pre_field(lf))
    IN IF left_values.t = "list"
       THEN LET scan == NestedScan(left_values.v, 1, <<>>, index, query_field(lf))
            IN IF Len(scan.copied_values) > 0
               THEN [doc |-> Put(left, pre_field(lf), PyList(scan.copied_values)),
                     kept |-> TRUE]
               ELSE [doc |-> Put(left, pre_field(lf), PyList(scan.left_values)),
                     kept |-> FALSE]
       ELSE LET key == Get(left, JoinDots(lf))
            IN IF key # None /\ key \in DOMAIN index
               THEN [doc |-> MergeScalar(left, index[key], 1), kept |-> TRUE]
               ELSE [doc |-> left, kept |-> TRUE]

\* results.insert(0, left) (used to test C6).
PrependResult(res, ref) == <<ref>> \o res

\* results.append(left)
AppendResult(res, ref) == Append(res, ref)

\* The merge takes "_id" out of each right document in place instead of
\* skipping it (used to test C25).
JoinStepPopsId ==
    /\ pc = "join"
    /\ pos <= Len(left_docs)
    /\ LET r == JoinedLeft(left_docs[pos], local_field, right_index)
       IN /\ left_docs' = [left_docs EXCEPT ![pos] = r.doc]
          /\ results' = IF r.kept THEN AppendResult(results, pos) ELSE results
    /\ right_docs' = [i \in 1..Len(right_docs) |->
                        [k \in DOMAIN right_docs[i] \ {"_id"} |-> right_docs[i][k]]]
    /\ pos' = pos + 1
    /\ UNCHANGED <<pc, local_field, left_resp, right_resp,
                   right_index, fetches, response>>
    /\ UNCHANGED <<advVars, normVars, histVars, qsVars, anaVars, travVars>>

JoinStep ==
    /\ pc = "join"
    /\ pos <= Len(left_docs)
    /\ LET r == JoinedLeft(left_docs[pos], local_field, right_index)
       IN /\ left_docs' = [left_docs EXCEPT ![pos] = r.doc]
          /\ results' = IF r.kept THEN AppendResult(results, pos) ELSE results
    /\ pos' = pos + 1
    /\ UNCHANGED <<pc, local_field, left_resp, right_resp, right_docs,
                   right_index, fetches, response>>
    /\ UNCHANGED <<advVars, normVars, histVars, qsVars, anaVars, travVars>>

JoinReturn ==
    /\ pc = "join"
    /\ pos > Len(left_docs)
    /\ response' = [documents |-> [i \in 1..Len(results) |-> left_docs[results[i]]],
                    total_count |-> Len(results)]
    /\ pc' = "done"
    /\ UNCHANGED <<local_field, left_resp, right_resp, left_docs, right_docs,
                   right_index, results, pos, fetches>>
    /\ UNCHANGED <<advVars, normVars, histVars, qsVars, anaVars, travVars>>

NoResp == [none |-> TRUE]

JoinIdle ==
    /\ pc = "idle"
    /\ local_field = <<>>
    /\ left_resp = NoResp
    /\ right_resp = NoResp
    /\ left_docs = <<>>
    /\ right_docs = <<>>
    /\ right_index = <<>>
    /\ results = <<>>
    /\ pos = 0
    /\ fetches = [left |-> 0, right |-> 0]
    /\ response = NoResp

AdvIdle ==
    /\ apc = "idle"
    /\ aop = "none"
    /\ projection = None
    /\ explain_output = NoResp
    /\ analysis = NoResp
    /\ indexes = NoResp
    /\ indexes_stats = NoResp
    /\ collections_stats = NoResp
    /\ calls = <<>>
    /\ aresult = NoResp

NormIdle ==
    /\ npc = "idle"
    /\ query = <<>>
    /\ shape = NoResp

QsIdle ==
    /\ qpc = "idle"
    /\ qinput = None
    /\ qresult = NoResp

AnaIdle ==
    /\ anpc = "idle"
    /\ an_explain = None
    /\ an_projection = None
    /\ an_result = NoResp

TravIdle ==
    /\ tpc = "idle"
    /\ plan_nodes = <<>>
    /\ stack = <<>>
    /\ tresult = NoResp

Init ==
    /\ JoinIdle /\ AdvIdle /\ NormIdle /\ history = <<>>
    /\ QsIdle /\ AnaIdle /\ TravIdle

JoinNext ==
    \/ JoinCall
    \/ FetchLeft
    \/ FetchRight
    \/ LeftFailed
    \/ RightFailed
    \/ BuildIndex
    \/ JoinStep
    \/ JoinReturn

SpecJoin == Init /\ [][JoinNext]_vars

----------------------------------------------------------------------------
\* The explain analysis (workflow.py, analyze_explain_metrics).
PyStr(x) == [t |-> "str", v |-> x]
EmptyDict == PyDict(<<>>)

\* dict.get(f, default)
GetOr(d, f, default) == IF f \in DOMAIN d THEN d[f] ELSE default

\* Python truth value.
Truthy(x) ==
    CASE x.t = "none" -> FALSE
      [] x.t = "int" -> x.v # 0
      [] x.t = "str" -> x.v # ""
      [] x.t = "list" -> Len(x.v) > 0
      [] x.t = "dict" -> DOMAIN x.v # {}

\* type(x).__name__
TypeName(x) ==
    CASE x.t = "none" -> "NoneType"
      [] x.t = "int" -> "int"
      [] x.t = "str" -> "str"
      [] x.t = "list" -> "list"
      [] OTHER -> "dict"

\* str(e) of the AttributeError raised by x.attr
AttributeError(x, attr) ==
    "'" \o TypeName(x) \o "' object has no attribute '" \o attr \o "'"

RECURSIVE Gcd(_, _)
Gcd(a, b) == IF b = 0 THEN a ELSE Gcd(b, a % b)

\* Zero in the place of float("inf") (used to test C17).
InfAsZero == [inf |-> FALSE, num |-> 0, den |-> 1]

\* float("inf"), and the float a / b of two non-negative ints (b > 0), kept
\* as a fraction in lowest terms.
Inf == [inf |-> TRUE, num |-> 0, den |-> 0]
Div(a, b) == [inf |-> FALSE, num |-> a \div Gcd(a, b), den |-> b \div Gcd(a, b)]

\* The keys without "shards" (used to test C14).
ChildKeyOrderNoShards == <<"inputStage", "inputStages", "innerStage", "outerStage">>

\* The keys search_for_sort follows, in the order of its for loop.
ChildKeyOrder == <<"inputStage", "inputStages", "shards", "innerStage", "outerStage">>

\* The run of search_for_sort on a node: "found" (return True), "absent"
\* (return False) or the message of the AttributeError that stage_dict.get
\* raises on a truthy value that is no dict.  The keys are tried in order and
\* the first result that is not "absent" ends the run.
RECURSIVE SortWalk(_)
RECURSIVE WalkKeys(_, _)
RECURSIVE WalkList(_, _)
SortWalk(stage_dict) ==
    IF ~Truthy(stage_dict) THEN "absent"
    ELSE IF stage_dict.t # "dict" THEN AttributeError(stage_dict, "get")
    ELSE IF Get(stage_dict.v, "stage") = PyStr("SORT") THEN "found"
    ELSE WalkKeys(stage_dict, 1)

WalkKeys(stage_dict, i) ==
    IF i > Len(ChildKeyOrder) THEN "absent"
    ELSE LET substage == Get(stage_dict.v, ChildKeyOrder[i])
             r == IF substage.t = "dict" THEN SortWalk(substage)
                  ELSE IF substage.t = "list" THEN WalkList(substage.v, 1)
                  ELSE "absent"
         IN IF r = "absent" THEN WalkKeys(stage_dict, i + 1) ELSE r

WalkList(substage, j) ==
    IF j > Len(substage) THEN "absent"
    ELSE LET r == SortWalk(substage[j])
         IN IF r = "absent" THEN WalkList(substage, j + 1) ELSE r

\* search_for_sort(stage_dict), when it returns.
search_for_sort(stage_dict) == SortWalk(stage_dict) = "found"

LowerCaseLetters == "abcdefghijklmnopqrstuvwxyz"
UpperCaseLetters == "ABCDEFGHIJKLMNOPQRSTUVWXYZ"

\* c.upper() for one character
UpperChar(c) ==
    IF \E i \in 1..Len(LowerCaseLetters) : SubSeq(LowerCaseLetters, i, i) = c
    THEN LET i == CHOOSE n \in 1..Len(LowerCaseLetters) : SubSeq(LowerCaseLetters, n, n) = c
         IN SubSeq(UpperCaseLetters, i, i)
    ELSE c

\* s.upper()
RECURSIVE UpperCase(_)
UpperCase(s) ==
    IF Len(s) = 0 THEN ""
    ELSE UpperChar(SubSeq(s, 1, 1)) \o UpperCase(SubSeq(s, 2, Len(s)))

\* s.strip(c): every leading and every trailing c is removed.
RECURSIVE Strip(_, _)
Strip(s, c) ==
    IF Len(s) > 0 /\ SubSeq(s, 1, 1) = c THEN Strip(SubSeq(s, 2, Len(s)), c)
    ELSE IF Len(s) > 0 /\ SubSeq(s, Len(s), Len(s)) = c
    THEN Strip(SubSeq(s, 1, Len(s) - 1), c)
    ELSE s

\* stage_name.strip("$") without the upper-casing (used to test C18).
StripOnly(stage_name) == Strip(stage_name, "$")

\* stage_name.strip("$").upper()
StripUpper(stage_name) == UpperCase(Strip(stage_name, "$"))

\* covered: the projected fields are a subset of the input stage's keyPattern.
Covered(winning_plan, proj) ==
    IF Truthy(proj) /\ Truthy(Get(winning_plan.v, "inputStage"))
    THEN LET input == GetOr(winning_plan.v, "inputStage", EmptyDict)
             index_keys == DOMAIN GetOr(input.v, "keyPattern", EmptyDict).v
             proj_fields ==
                {k \in DOMAIN proj.v : Truthy(proj.v[k])}
                \cup (IF "_id" \in DOMAIN proj.v /\ proj.v["_id"] # PyInt(0)
                      THEN {"_id"} ELSE {})
         IN proj_fields \subseteq index_keys
    ELSE FALSE

\* What a step of the analysis gives when it raises nothing.
Completed == [completed |-> TRUE]
Returned(x) == [value |-> x]
Raised(e) == [raised |-> e]
HasRaised(r) == "raised" \in DOMAIN r

\* a / b raises TypeError unless both are numbers.
DivFailure(a, b) ==
    IF a.t = "int" /\ b.t = "int" THEN Completed
    ELSE Raised("unsupported operand type(s) for /: '" \o TypeName(a)
                    \o "' and '" \o TypeName(b) \o "'")

\* The statements that compute covered: .get on the input stage and .keys()
\* on its keyPattern raise AttributeError on a value that is no dict.
CoveredFailure(winning_plan, proj) ==
    IF Truthy(proj) /\ Truthy(Get(winning_plan.v, "inputStage"))
    THEN LET input == winning_plan.v["inputStage"]
         IN IF input.t # "dict" THEN Raised(AttributeError(input, "get"))
            ELSE LET key_pattern == GetOr(input.v, "keyPattern", EmptyDict)
                 IN IF key_pattern.t # "dict"
                    THEN Raised(AttributeError(key_pattern, "keys"))
                    ELSE Completed
    ELSE Completed

\* The first exception of the statements that build one entry from
\* `container` (explain_output, or stage_detail of a stage), in their order.
EntryFailure(container, proj) ==
    IF container.t # "dict" THEN Raised(AttributeError(container, "get"))
    ELSE LET qp == GetOr(container.v, "queryPlanner", EmptyDict)
    IN IF qp.t # "dict" THEN Raised(AttributeError(qp, "get"))
    ELSE LET winning_plan == GetOr(qp.v, "winningPlan", EmptyDict)
             stats == GetOr(container.v, "executionStats", EmptyDict)
    IN IF winning_plan.t # "dict" THEN Raised(AttributeError(winning_plan, "get"))
    ELSE IF stats.t # "dict" THEN Raised(AttributeError(stats, "get"))
    ELSE LET n_returned == GetOr(stats.v, "nReturned", PyInt(0))
             total_docs_examined == GetOr(stats.v, "totalDocsExamined", PyInt(0))
             total_keys_examined == GetOr(stats.v, "totalKeysExamined", PyInt(0))
    IN IF Truthy(n_returned) /\ HasRaised(DivFailure(total_docs_examined, n_returned))
       THEN DivFailure(total_docs_examined, n_returned)
    ELSE IF Truthy(total_docs_examined)
            /\ HasRaised(DivFailure(total_keys_examined, total_docs_examined))
       THEN DivFailure(total_keys_examined, total_docs_examined)
    ELSE IF HasRaised(CoveredFailure(winning_plan, proj))
       THEN CoveredFailure(winning_plan, proj)
    ELSE IF SortWalk(winning_plan) \notin {"found", "absent"}
       THEN Raised(SortWalk(winning_plan))
    ELSE Completed

\* The entry appended to results for one plan.
StageEntry(winning_plan, stats, default_stage, proj) ==
    LET n_returned == GetOr(stats.v, "nReturned", PyInt(0))
        total_docs_examined == GetOr(stats.v, "totalDocsExamined", PyInt(0))
        total_keys_examined == GetOr(stats.v, "totalKeysExamined", PyInt(0))
    IN [stage |-> GetOr(winning_plan.v, "stage", PyStr(default_stage)),
        healthMetrics |->
          [nReturned |-> n_returned,
           totalDocsExamined |-> total_docs_examined,
           totalKeysExamined |-> total_keys_examined,
           amplificationRatio |->
                IF Truthy(n_returned)
                THEN Div(total_docs_examined.v, n_returned.v) ELSE Inf,
           keyDocRatio |->
                IF Truthy(total_docs_examined)
                THEN Div(total_keys_examined.v, total_docs_examined.v) ELSE Inf,
           triggersSort |-> search_for_sort(winning_plan),
           covered |-> Covered(winning_plan, proj)]]

\* One element of explain_output["stages"]: a one-key dict, kept as the pair
\* next(iter(stage.items())) yields.
StagePlan(stage, proj) ==
    LET qp == GetOr(stage.detail.v, "queryPlanner", EmptyDict)
    IN StageEntry(GetOr(qp.v, "winningPlan", EmptyDict),
                  GetOr(stage.detail.v, "executionStats", EmptyDict),
                  StripUpper(stage.name), proj)

\* A stage of explain_output["stages"] that is an empty dict.
EmptyWrapper == [empty |-> TRUE]

\* stage_name, stage_detail = next(iter(stage.items())) raises StopIteration,
\* whose str() is empty, on an empty stage; then the entry is built.
StageFailure(stage, proj) ==
    IF stage = EmptyWrapper THEN Raised("")
    ELSE EntryFailure(stage.detail, proj)

\* analyze_explain_metrics(explain_output, projection).  The first statement,
\* `"stages" not in explain_output`, raises TypeError on an ErrorResponse,
\* which is a dataclass and no container.
analyze_explain_metrics(eo, proj) ==
    IF HasError(eo)
    THEN Raised("argument of type 'ErrorResponse' is not iterable")
    ELSE IF "stages" \notin DOMAIN eo.v
    THEN IF HasRaised(EntryFailure(eo, proj)) THEN EntryFailure(eo, proj)
         ELSE LET query_planner == GetOr(eo.v, "queryPlanner", EmptyDict)
              IN Returned([stagesAnalysis |->
                    <<StageEntry(GetOr(query_planner.v, "winningPlan", EmptyDict),
                                 GetOr(eo.v, "executionStats", EmptyDict),
                                 "UNKNOWN", proj)>>])
    ELSE LET stages == eo.v["stages"]
             failing == {i \in 1..Len(stages) : HasRaised(StageFailure(stages[i], proj))}
         IN IF failing # {}
            THEN StageFailure(stages[CHOOSE i \in failing : \A j \in failing : i <= j], proj)
            ELSE Returned([stagesAnalysis |->
                    [i \in 1..Len(stages) |-> StagePlan(stages[i], proj)]])

----------------------------------------------------------------------------
\* The advisor (workflow.py, optimize_find_query, optimize_count_query,
\* optimize_aggregate_query) and its collaborators.

\* A collaborator tool (explain_*_query, list_indexes, index_stats,
\* collection_stats): try: return <driver result>; except: ErrorResponse(str(e)).
Collaborator(db) == IF db.ok THEN db.value ELSE ErrorResponse(db.msg)

DriverOutcomes(Values) ==
    {[ok |-> TRUE, value |-> x, msg |-> ""] : x \in Values}
    \cup {[ok |-> FALSE, value |-> None, msg |-> m] : m \in DbErrors}

Stats(n, d, k) ==
    PyDict(("nReturned" :> PyInt(n)) @@ ("totalDocsExamined" :> PyInt(d))
           @@ ("totalKeysExamined" :> PyInt(k)))
IxScan == PyDict(("stage" :> PyStr("IXSCAN")) @@ ("keyPattern" :> PyDict("a" :> PyInt(1))))
FetchPlan == PyDict(("stage" :> PyStr("FETCH")) @@ ("inputStage" :> IxScan))
SortPlan ==
    PyDict(("stage" :> PyStr("PROJECTION"))
           @@ ("inputStage" :> PyDict(("stage" :> PyStr("SORT"))
                                      @@ ("inputStage" :> PyDict("stage" :> PyStr("COLLSCAN"))))))
Planner(plan) == PyDict("winningPlan" :> plan)
ExplainOutputs ==
    { PyDict(("queryPlanner" :> Planner(FetchPlan)) @@ ("executionStats" :> Stats(2, 4, 6))),
      PyDict(("queryPlanner" :> Planner(SortPlan)) @@ ("executionStats" :> Stats(0, 3, 0))),
      PyDict(<<>>),
      PyDict("stages" :>
        << [name |-> "$cursor",
            detail |-> PyDict(("queryPlanner" :> Planner(FetchPlan))
                              @@ ("executionStats" :> Stats(1, 1, 1)))],
           [name |-> "$sort", detail |-> EmptyDict] >>) }
Projections == {None, PyDict("a" :> PyInt(1)), PyDict(("a" :> PyInt(1)) @@ ("_id" :> PyInt(0)))}
IndexLists == {PyList(<<PyDict("name" :> PyStr("_id_"))>>)}
IndexStats == {PyDict("indexes" :> PyList(<<PyDict("name" :> PyStr("_id_"))>>))}
CollStats == {PyDict("count" :> PyInt(3))}
Calls == {[op |-> "find", projection |-> pr] : pr \in Projections}
         \cup {[op |-> o, projection |-> None] : o \in {"count", "aggregate"}}

\* optimize_*_query is called.
AdvCall ==
    /\ apc = "idle"
    /\ \E c \in Calls : aop' = c.op /\ projection' = c.projection
    /\ apc' = "explain"
    /\ UNCHANGED <<explain_output, analysis, indexes, indexes_stats,
                   collections_stats, calls, aresult>>
    /\ UNCHANGED <<joinVars, normVars, histVars, qsVars, anaVars, travVars>>

\* explain_output = await explain_<op>_query(...)
AdvExplain ==
    /\ apc = "explain"
    /\ \E db \in DriverOutcomes(ExplainOutputs) : explain_output' = Collaborator(db)
    /\ calls' = Append(calls, "explain")
    /\ apc' = "analyze"
    /\ UNCHANGED <<aop, projection, analysis, indexes, indexes_stats,
                   collections_stats, aresult>>
    /\ UNCHANGED <<joinVars, normVars, histVars, qsVars, anaVars, travVars>>

\* analysis = analyze_explain_metrics(explain_output[, projection]); an
\* exception leaves the try block: return ErrorResponse(error=str(e)).
AdvAnalyze ==
    /\ apc = "analyze"
    /\ LET r == analyze_explain_metrics(explain_output, projection)
       IN IF HasRaised(r)
          THEN /\ aresult' = ErrorResponse(r.raised)
               /\ apc' = "done"
               /\ UNCHANGED analysis
          ELSE /\ analysis' = r.value
               /\ apc' = "list_indexes"
               /\ UNCHANGED aresult
    /\ UNCHANGED <<aop, projection, explain_output, indexes, indexes_stats,
                   collections_stats, calls>>
    /\ UNCHANGED <<joinVars, normVars, histVars, qsVars, anaVars, travVars>>

\* indexes = await list_indexes(...)
AdvListIndexes ==
    /\ apc = "list_indexes"
    /\ \E db \in DriverOutcomes(IndexLists) : indexes' = Collaborator(db)
    /\ calls' = Append(calls, "list_indexes")
    /\ apc' = "index_stats"
    /\ UNCHANGED <<aop, projection, explain_output, analysis, indexes_stats,
                   collections_stats, aresult>>
    /\ UNCHANGED <<joinVars, normVars, histVars, qsVars, anaVars, travVars>>

\* indexes_stats = await index_stats(...)
AdvIndexStats ==
    /\ apc = "index_stats"
    /\ \E db \in DriverOutcomes(IndexStats) : indexes_stats' = Collaborator(db)
    /\ calls' = Append(calls, "index_stats")
    /\ apc' = "collection_stats"
    /\ UNCHANGED <<aop, projection, explain_output, analysis, indexes,
                   collections_stats, aresult>>
    /\ UNCHANGED <<joinVars, normVars, histVars, qsVars, anaVars, travVars>>

\* collection_stats is left out: no request is made before the return.
AdvCollStatsSkipped ==
    /\ apc = "collection_stats"
    /\ \E db \in DriverOutcomes(CollStats) : collections_stats' = Collaborator(db)
    /\ apc' = "return"
    /\ UNCHANGED <<aop, projection, explain_output, analysis, indexes,
                   indexes_stats, aresult, calls>>
    /\ UNCHANGED <<joinVars, normVars, histVars, qsVars, anaVars, travVars>>

\* collections_stats = await collection_stats(...)
AdvCollStats ==
    /\ apc = "collection_stats"
    /\ \E db \in DriverOutcomes(CollStats) : collections_stats' = Collaborator(db)
    /\ calls' = Append(calls, "collection_stats")
    /\ apc' = "return"
    /\ UNCHANGED <<aop, projection, explain_output, analysis, indexes,
                   indexes_stats, aresult>>
    /\ UNCHANGED <<joinVars, normVars, histVars, qsVars, anaVars, travVars>>

\* return {"explain": ..., "analysis": ..., "indexes": ..., ...}
AdvReturn ==
    /\ apc = "return"
    /\ aresult' = [explain |-> explain_output, analysis |-> analysis,
                   indexes |-> indexes, indexes_stats |-> indexes_stats,
                   collections_stats |-> collections_stats]
    /\ apc' = "done"
    /\ UNCHANGED <<aop, projection, explain_output, analysis, indexes,
                   indexes_stats, collections_stats, calls>>
    /\ UNCHANGED <<joinVars, normVars, histVars, qsVars, anaVars, travVars>>

AdvNext ==
    \/ AdvCall
    \/ AdvExplain
    \/ AdvAnalyze
    \/ AdvListIndexes
    \/ AdvIndexStats
    \/ AdvCollStats
    \/ AdvReturn

SpecAdvisor == Init /\ [][AdvNext]_vars

----------------------------------------------------------------------------
\* The normalizer (workflow.py, normalize_query_shape).  A query is a dict
\* whose insertion order matters here: it is kept as the sequence of its
\* items [k, v], keys distinct.
MaxFields == 2   \* fields of a filter

\* The operator list of the `any(op in v for op in [...])` test.
RangeOperators == <<"$gt", "$gte", "$lt", "$lte", "$in", "$nin", "$regex">>

\* The operator list without its last entry (used to test C10).
HasRangeOperatorNoRegex(v) ==
    \E i \in 1..(Len(RangeOperators) - 1) : RangeOperators[i] \in DOMAIN v

\* any(op in v for op in [...]) for a dict v
HasRangeOperator(v) ==
    \E i \in 1..Len(RangeOperators) : RangeOperators[i] \in DOMAIN v

\* The join with the separator of a list rendering (used to test C11).
RECURSIVE JoinCommaSpaces(_)
JoinCommaSpaces(names) ==
    IF Len(names) = 0 THEN ""
    ELSE IF Len(names) = 1 THEN names[1]
    ELSE names[1] \o ", " \o JoinCommaSpaces(Tail(names))

\* ",".join(names)
RECURSIVE JoinCommas(_)
JoinCommas(names) ==
    IF Len(names) = 0 THEN ""
    ELSE IF Len(names) = 1 THEN names[1]
    ELSE names[1] \o "," \o JoinCommas(Tail(names))

\* for k, v in query.items(): ... append to eq_fields or range_fields
RECURSIVE ClassifyFields(_, _, _, _)
ClassifyFields(items, i, eq_fields, range_fields) ==
    IF i > Len(items) THEN [eq_fields |-> eq_fields, range_fields |-> range_fields]
    ELSE LET k == items[i].k
             v == items[i].v
         IN IF v.t = "dict"
            THEN IF HasRangeOperator(v.v)
                 THEN ClassifyFields(items, i + 1, eq_fields, Append(range_fields, k))
                 ELSE ClassifyFields(items, i + 1, Append(eq_fields, k), range_fields)
            ELSE ClassifyFields(items, i + 1, Append(eq_fields, k), range_fields)

\* The function with eq_fields and range_fields kept between calls instead of
\* created by each call (used to test C13).
normalize_query_shape_shared(q) ==
    LET c == IF "eqFields" \in DOMAIN shape
             THEN ClassifyFields(q, 1, shape.eqFields, shape.rangeFields)
             ELSE ClassifyFields(q, 1, <<>>, <<>>)
    IN [shapeKey |-> "EQ[" \o JoinCommas(c.eq_fields) \o "]|RANGE["
                        \o JoinCommas(c.range_fields) \o "]",
        eqFields |-> c.eq_fields,
        rangeFields |-> c.range_fields]

normalize_query_shape(q) ==
    LET c == ClassifyFields(q, 1, <<>>, <<>>)
    IN [shapeKey |-> "EQ[" \o JoinCommas(c.eq_fields) \o "]|RANGE["
                        \o JoinCommas(c.range_fields) \o "]",
        eqFields |-> c.eq_fields,
        rangeFields |-> c.range_fields]

FieldNames == {"age", "name", "tags"}
FieldValues ==
    {PyInt(18), PyStr("x"), EmptyDict,
     PyDict("$eq" :> PyInt(1)), PyDict("$ne" :> PyInt(1)),
     PyDict(("$eq" :> PyInt(1)) @@ ("$lt" :> PyInt(9)))}
    \cup {PyDict(RangeOperators[i] :> PyInt(18)) : i \in 1..Len(RangeOperators)}
Filters ==
    {q \in SeqsUpTo([k : FieldNames, v : FieldValues], MaxFields) :
        \A i, j \in 1..Len(q) : i # j => q[i].k # q[j].k}

\* normalize_query_shape(query) is called.
NormCall ==
    /\ npc = "idle"
    /\ \E q \in Filters : query' = q
    /\ npc' = "called"
    /\ UNCHANGED shape
    /\ UNCHANGED <<joinVars, advVars, histVars, qsVars, anaVars, travVars>>

\* The call returns the shape.
NormReturn ==
    /\ npc = "called"
    /\ shape' = normalize_query_shape(query)
    /\ npc' = "done"
    /\ UNCHANGED query
    /\ UNCHANGED <<joinVars, advVars, histVars, qsVars, anaVars, travVars>>

NormNext ==
    \/ NormCall
    \/ NormReturn

SpecNormalizer == Init /\ [][NormNext]_vars

----------------------------------------------------------------------------
\* Vocabulary of the join claims.

\* ---------------------------------------------------------------------
\* query_shape: the tool around normalize_query_shape
\* ---------------------------------------------------------------------

\* A mapping given with its items in insertion order.
PyMap(items) == [t |-> "map", v |-> items]

HasKey(items, k) == \E i \in 1..Len(items) : items[i].k = k
ItemValue(items, k) == items[CHOOSE i \in 1..Len(items) : items[i].k = k].v

\* try: normalize_query_shape(query.get("filter", query))
\* except Exception as e: ErrorResponse(error=str(e))
query_shape(q) ==
    IF q.t # "map" THEN ErrorResponse(AttributeError(q, "get"))
    ELSE LET f == IF HasKey(q.v, "filter") THEN ItemValue(q.v, "filter") ELSE q
         IN IF f.t # "map" THEN ErrorResponse(AttributeError(f, "items"))
            ELSE normalize_query_shape(f.v)

\* Values that are not mappings.
NonMappings == {None, PyInt(5), PyStr("x"), PyList(<<>>)}
\* The filters handed to the tool: every filter of at most one field, and one
\* of two fields.
ToolFilters ==
    {q \in Filters : Len(q) <= 1}
    \cup {<<[k |-> "name", v |-> PyStr("x")],
            [k |-> "age", v |-> PyDict("$gte" :> PyInt(18))]>>}
\* What a caller may store under the key "filter".
FilterArgs == NonMappings \cup {PyMap(f) : f \in ToolFilters}
\* What may follow the key "filter" in a find command.
CommandRest == {<<>>, <<[k |-> "limit", v |-> PyInt(5)]>>}
QueryInputs ==
    NonMappings
    \cup {PyMap(f) : f \in ToolFilters}
    \cup {PyMap(<<[k |-> "filter", v |-> x]>> \o rest) :
            x \in FilterArgs, rest \in CommandRest}

\* query_shape(query) is called.
QsCall ==
    /\ qpc = "idle"
    /\ \E q \in QueryInputs : qinput' = q
    /\ qpc' = "called"
    /\ UNCHANGED qresult
    /\ UNCHANGED <<joinVars, advVars, normVars, histVars, anaVars, travVars>>

\* The tool returns the shape or the ErrorResponse.
QsReturn ==
    /\ qpc = "called"
    /\ qresult' = query_shape(qinput)
    /\ qpc' = "done"
    /\ UNCHANGED qinput
    /\ UNCHANGED <<joinVars, advVars, normVars, histVars, anaVars, travVars>>

QsNext ==
    \/ QsCall
    \/ QsReturn

SpecQueryShape == Init /\ [][QsNext]_vars

\* ---------------------------------------------------------------------
\* normalize_query_shape called several times in one process
\* ---------------------------------------------------------------------
MaxCalls == 3   \* calls of normalize_query_shape in one run

\* The filters of the repeated calls: up to MaxFields of two fields, each
\* tested for equality or for a range.
RepeatFilters ==
    {q \in SeqsUpTo([k : {"age", "name"},
                     v : {PyInt(18), PyDict("$gte" :> PyInt(18))}], MaxFields) :
        \A i, j \in 1..Len(q) : i # j => q[i].k # q[j].k}

\* normalize_query_shape(query) is called, for the first time or after an
\* earlier call has returned.
NormCallAgain ==
    /\ npc \in {"idle", "done"}
    /\ Len(history) < MaxCalls
    /\ \E q \in RepeatFilters : query' = q
    /\ npc' = "called"
    /\ UNCHANGED <<shape, history>>
    /\ UNCHANGED <<joinVars, advVars, qsVars, anaVars, travVars>>

\* The call returns the shape; the run's record of calls grows by it.
NormReturnAgain ==
    /\ npc = "called"
    /\ shape' = normalize_query_shape(query)
    /\ history' = Append(history, [query |-> query, shape |-> shape'])
    /\ npc' = "done"
    /\ UNCHANGED query
    /\ UNCHANGED <<joinVars, advVars, qsVars, anaVars, travVars>>

RepeatNext ==
    \/ NormCallAgain
    \/ NormReturnAgain

SpecRepeat == Init /\ [][RepeatNext]_vars

\* ---------------------------------------------------------------------
\* analyze_explain_metrics called on its own
\* ---------------------------------------------------------------------
MaxDepth == 4    \* child links between winningPlan and its deepest node
MaxCount == 2    \* largest counter of executionStats
MaxStages == 2   \* stages of an aggregate explain

\* The child links of a plan node: those that hold one node and those that
\* hold a list of nodes.
SingleLinks == {"inputStage", "innerStage", "outerStage"}
SequenceLinks == {"inputStages", "shards"}

Leaf(stage) == PyDict("stage" :> PyStr(stage))

\* A FETCH node with one child link; a list-valued link holds a COLLSCAN
\* leaf before the child.
Link(key, child) ==
    PyDict(("stage" :> PyStr("FETCH"))
           @@ (key :> IF key \in SequenceLinks
                      THEN PyList(<<Leaf("COLLSCAN"), child>>)
                      ELSE child))

\* The plan that reaches `leaf` through the links of `path`.
RECURSIVE PlanAlong(_, _)
PlanAlong(path, leaf) ==
    IF Len(path) = 0 THEN leaf
    ELSE Link(Head(path), PlanAlong(Tail(path), leaf))

PathPlans ==
    {PlanAlong(p, Leaf(s)) :
        p \in SeqsUpTo(SingleLinks \cup SequenceLinks, MaxDepth),
        s \in {"SORT", "COLLSCAN"}}

\* Plans with a SORT node that no child link leads to, and with stage names
\* that only resemble SORT.
DecoyPlans ==
    {PyDict(("stage" :> PyStr("FETCH")) @@ ("rejectedPlan" :> Leaf("SORT"))),
     PyDict(("stage" :> PyStr("FETCH"))
            @@ ("inputStage" :> PyDict("filter" :> Leaf("SORT")))),
     Leaf("sort"),
     Link("inputStage", Leaf("SORT_MERGE"))}

Explain(plan, stats) ==
    PyDict(("queryPlanner" :> Planner(plan)) @@ ("executionStats" :> stats))

\* Plans whose inputStage has no keyPattern, an empty one, or one over the
\* fields a, b and _id; a plan with an empty inputStage and one with none.
KeyPatterns ==
    {EmptyDict, PyDict("a" :> PyInt(1)),
     PyDict(("a" :> PyInt(1)) @@ ("b" :> PyInt(1))),
     PyDict(("a" :> PyInt(1)) @@ ("_id" :> PyInt(1)))}
CoverPlans ==
    {PyDict(("stage" :> PyStr("FETCH"))
            @@ ("inputStage" :> PyDict(("stage" :> PyStr("IXSCAN")) @@ ("keyPattern" :> kp)))) :
        kp \in KeyPatterns}
    \cup {Link("inputStage", Leaf("COLLSCAN")),
          PyDict(("stage" :> PyStr("FETCH")) @@ ("inputStage" :> EmptyDict)),
          Leaf("COLLSCAN")}

\* The projections over a, b and _id with flags 0 and 1, and no projection.
ProjectionDicts ==
    UNION {[fields -> {PyInt(0), PyInt(1)}] : fields \in SUBSET {"a", "b", "_id"}}
CoverProjections == {None} \cup {PyDict(p) : p \in ProjectionDicts}

\* executionStats with every counter in 0..MaxCount, or with counters missing.
CounterStats ==
    {Stats(n, d, k) : n \in 0..MaxCount, d \in 0..MaxCount, k \in 0..MaxCount}
    \cup {EmptyDict, PyDict("nReturned" :> PyInt(1)),
          PyDict("totalDocsExamined" :> PyInt(1))}

\* The stages of an aggregate explain.
StageNames == {"$cursor", "$sort", "$group"}
StageDetails ==
    {EmptyDict,
     Explain(FetchPlan, Stats(2, 4, 6)),
     Explain(PyDict("inputStage" :> IxScan), Stats(0, 1, 1)),
     PyDict("queryPlanner" :> Planner(SortPlan))}
StageLists == SeqsUpTo([name : StageNames, detail : StageDetails], MaxStages)
\* Explain structures with a field that is null or of another type than the
\* engine gives it.
MalformedPlans ==
    {PyDict("stage" :> None),
     PyDict(("stage" :> PyStr("FETCH")) @@ ("inputStage" :> None)),
     PyDict(("stage" :> PyStr("FETCH")) @@ ("inputStage" :> PyStr("x"))),
     PyDict(("stage" :> PyStr("FETCH")) @@ ("inputStages" :> PyList(<<None>>))),
     PyDict(("stage" :> PyStr("FETCH")) @@ ("inputStages" :> PyList(<<PyStr("x")>>))),
     PyDict(("stage" :> PyStr("FETCH"))
            @@ ("inputStage" :> PyDict(("stage" :> PyStr("IXSCAN")) @@ ("keyPattern" :> None))))}
MalformedStats ==
    {PyDict("nReturned" :> None),
     PyDict(("nReturned" :> PyInt(2)) @@ ("totalDocsExamined" :> None)),
     PyDict("totalDocsExamined" :> PyStr("x"))}
MalformedExplains ==
    {PyDict("queryPlanner" :> None),
     PyDict("queryPlanner" :> PyStr("x")),
     PyDict("queryPlanner" :> PyDict("winningPlan" :> None)),
     PyDict("executionStats" :> None),
     PyDict("stages" :> <<EmptyWrapper>>),
     PyDict("stages" :> <<[name |-> "$cursor", detail |-> None]>>),
     PyDict("stages" :> <<[name |-> "$cursor", detail |-> PyDict("queryPlanner" :> None)]>>)}
    \cup {Explain(p, Stats(1, 1, 1)) : p \in MalformedPlans}
    \cup {Explain(FetchPlan, st) : st \in MalformedStats}

AnaInputs ==
    {[explain |-> Explain(p, Stats(1, 1, 1)), projection |-> None] :
        p \in PathPlans \cup DecoyPlans}
    \cup {[explain |-> Explain(p, Stats(1, 1, 1)), projection |-> pr] :
            p \in CoverPlans, pr \in CoverProjections}
    \cup {[explain |-> Explain(FetchPlan, st), projection |-> None] : st \in CounterStats}
    \cup {[explain |-> PyDict("stages" :> sl), projection |-> pr] :
            sl \in StageLists, pr \in {None, PyDict("a" :> PyInt(1))}}
    \cup {[explain |-> PyDict(<<>>), projection |-> None]}
    \cup {[explain |-> e, projection |-> pr] :
            e \in MalformedExplains, pr \in {None, PyDict("a" :> PyInt(1))}}

\* analyze_explain_metrics(explain_output, projection) is called.
AnaCall ==
    /\ anpc = "idle"
    /\ \E c \in AnaInputs : an_explain' = c.explain /\ an_projection' = c.projection
    /\ anpc' = "called"
    /\ UNCHANGED an_result
    /\ UNCHANGED <<joinVars, advVars, normVars, histVars, qsVars, travVars>>

\* The call returns {"stagesAnalysis": results} or raises.
AnaReturn ==
    /\ anpc = "called"
    /\ an_result' = analyze_explain_metrics(an_explain, an_projection)
    /\ anpc' = "done"
    /\ UNCHANGED <<an_explain, an_projection>>
    /\ UNCHANGED <<joinVars, advVars, normVars, histVars, qsVars, travVars>>

AnaNext ==
    \/ AnaCall
    \/ AnaReturn

SpecAnalyzer == Init /\ [][AnaNext]_vars

\* ---------------------------------------------------------------------
\* search_for_sort on a plan held as objects.  A dict of the plan is an
\* object that other dicts refer to, so a node may be reachable from itself;
\* each call of search_for_sort is a frame of the interpreter's stack.
\* ---------------------------------------------------------------------
MaxNodes == 2         \* dict objects of a plan
RecursionLimit == 4   \* frames the interpreter allows before RecursionError

NodeIds == 1..MaxNodes

\* A node: its stage, the node its inputStage refers to (0: no such key) and
\* the nodes its shards list refers to.
PlanObjects ==
    [stage : {"FETCH", "SORT"}, inputStage : 0..MaxNodes, shards : SeqsUpTo(NodeIds, 1)]
Heaps == [NodeIds -> PlanObjects]

\* The nodes that stage_dict.get(key) leads to: the one of a dict, those of
\* a list, none for a missing key.
SubstageIds(node, key) ==
    IF key = "inputStage" /\ node.inputStage # 0 THEN <<node.inputStage>>
    ELSE IF key = "shards" THEN node.shards
    ELSE <<>>

\* The frame of a call: its stage_dict, its place in the for loop over the
\* keys, and its place in the loop over a list.
Frame(id) == [node |-> id, key |-> 1, elem |-> 1]
Top == stack[Len(stack)]
TopNode == plan_nodes[Top.node]
TopIds == SubstageIds(TopNode, ChildKeyOrder[Top.key])

\* search_for_sort(winning_plan) is called on the first node of a plan.
TravCall ==
    /\ tpc = "idle"
    /\ \E h \in Heaps : plan_nodes' = h
    /\ stack' = <<Frame(1)>>
    /\ tpc' = "walking"
    /\ UNCHANGED tresult
    /\ UNCHANGED <<joinVars, advVars, normVars, histVars, qsVars, anaVars>>

\* if stage_dict.get("stage") == "SORT": return True; every caller returns
\* True in turn.
TravFound ==
    /\ tpc = "walking"
    /\ TopNode.stage = "SORT"
    /\ tresult' = Returned(TRUE)
    /\ stack' = <<>>
    /\ tpc' = "done"
    /\ UNCHANGED plan_nodes
    /\ UNCHANGED <<joinVars, advVars, normVars, histVars, qsVars, anaVars>>

\* The for loop goes to the next key: the key is missing or its list is
\* finished.
TravNextKey ==
    /\ tpc = "walking"
    /\ TopNode.stage # "SORT"
    /\ Top.key <= Len(ChildKeyOrder)
    /\ Top.elem > Len(TopIds)
    /\ stack' = [stack EXCEPT ![Len(stack)] = [node |-> Top.node, key |-> Top.key + 1, elem |-> 1]]
    /\ UNCHANGED <<tpc, plan_nodes, tresult>>
    /\ UNCHANGED <<joinVars, advVars, normVars, histVars, qsVars, anaVars>>

\* search_for_sort(substage) or search_for_sort(s): a new frame.
TravDescend ==
    /\ tpc = "walking"
    /\ TopNode.stage # "SORT"
    /\ Top.key <= Len(ChildKeyOrder)
    /\ Top.elem <= Len(TopIds)
    /\ Len(stack) < RecursionLimit
    /\ stack' = Append(stack, Frame(TopIds[Top.elem]))
    /\ UNCHANGED <<tpc, plan_nodes, tresult>>
    /\ UNCHANGED <<joinVars, advVars, normVars, histVars, qsVars, anaVars>>

\* The same call with no frame left: the interpreter raises RecursionError,
\* which no frame of search_for_sort catches.
TravRecursionError ==
    /\ tpc = "walking"
    /\ TopNode.stage # "SORT"
    /\ Top.key <= Len(ChildKeyOrder)
    /\ Top.elem <= Len(TopIds)
    /\ Len(stack) >= RecursionLimit
    /\ tresult' = Raised("maximum recursion depth exceeded")
    /\ stack' = <<>>
    /\ tpc' = "done"
    /\ UNCHANGED plan_nodes
    /\ UNCHANGED <<joinVars, advVars, normVars, histVars, qsVars, anaVars>>

\* return False after the last key; the caller goes on behind the call.
TravReturnFalse ==
    /\ tpc = "walking"
    /\ TopNode.stage # "SORT"
    /\ Top.key > Len(ChildKeyOrder)
    /\ IF Len(stack) = 1
       THEN /\ tresult' = Returned(FALSE)
            /\ stack' = <<>>
            /\ tpc' = "done"
       ELSE /\ stack' = [SubSeq(stack, 1, Len(stack) - 1) EXCEPT
                            ![Len(stack) - 1].elem = @ + 1]
            /\ UNCHANGED <<tpc, tresult>>
    /\ UNCHANGED plan_nodes
    /\ UNCHANGED <<joinVars, advVars, normVars, histVars, qsVars, anaVars>>

TravNext ==
    \/ TravCall
    \/ TravFound
    \/ TravNextKey
    \/ TravDescend
    \/ TravRecursionError
    \/ TravReturnFalse

SpecTraversal == Init /\ [][TravNext]_vars

\* ---------------------------------------------------------------------
\* The index loop of the join (document.py, `for doc in right_docs`) on its
\* own, over right documents whose foreign field is missing, null or an int.
\* ---------------------------------------------------------------------
MaxIndexDocs == 3   \* right documents handed to the index loop

IndexDocs ==
    { ("_id" :> PyInt(7)) @@ ("k" :> PyInt(5)),
      ("_id" :> PyInt(8)) @@ ("k" :> PyInt(5)) @@ ("v" :> PyInt(2)),
      ("_id" :> PyInt(9)) @@ ("k" :> PyInt(6)),
      ("_id" :> PyInt(10)) @@ ("v" :> PyInt(1)),
      ("_id" :> PyInt(11)) @@ ("k" :> None) }

\* right_docs = right_resp.documents
IndexCall ==
    /\ pc = "idle"
    /\ \E docs \in SeqsUpTo(IndexDocs, MaxIndexDocs) : right_docs' = docs
    /\ pc' = "index"
    /\ UNCHANGED <<local_field, left_resp, right_resp, left_docs, right_index,
                   results, pos, fetches, response>>
    /\ UNCHANGED <<advVars, normVars, histVars, qsVars, anaVars, travVars>>

\* right_index = {}; for doc in right_docs: ...
IndexBuild ==
    /\ pc = "index"
    /\ right_index' = BuildRightIndex(right_docs, 1, <<>>)
    /\ pc' = "indexed"
    /\ UNCHANGED <<local_field, left_resp, right_resp, left_docs, right_docs,
                   results, pos, fetches, response>>
    /\ UNCHANGED <<advVars, normVars, histVars, qsVars, anaVars, travVars>>

IndexNext ==
    \/ IndexCall
    \/ IndexBuild

SpecIndex == Init /\ [][IndexNext]_vars

\* ---------------------------------------------------------------------
\* One call of the join, of analyze_explain_metrics or of
\* normalize_query_shape.  The three share no state, so a behaviour follows
\* one of them from its call to its return.
\* ---------------------------------------------------------------------
JoinCallAlone == npc = "idle" /\ anpc = "idle" /\ JoinCall
AnaCallAlone == pc = "idle" /\ npc = "idle" /\ AnaCall
NormCallAlone == pc = "idle" /\ anpc = "idle" /\ NormCall

InputsNext ==
    \/ JoinCallAlone
    \/ FetchLeft
    \/ FetchRight
    \/ LeftFailed
    \/ RightFailed
    \/ BuildIndex
    \/ JoinStep
    \/ JoinReturn
    \/ AnaCallAlone
    \/ AnaReturn
    \/ NormCallAlone
    \/ NormReturn

SpecInputs == Init /\ [][InputsNext]_vars
\* ---------------------------------------------------------------------

\* Left documents the loop has finished with.
Processed == 1..(pos - 1)
\* The left document at position p as it was fetched.
Orig(p) == left_resp.documents[p]
OrigArray(p) == Get(Orig(p), pre_field(local_field))
\* The nested-array branch applies: the value at parentPath is a list.
IsNested(p) == OrigArray(p).t = "list"
InResults(p) == \E i \in 1..Len(results) : results[i] = p
Matches(e) == e.t = "dict" /\ Get(e.v, query_field(local_field)) \in DOMAIN right_index
BucketOf(e) == right_index[Get(e.v, query_field(local_field))]
\* The array the join put at parentPath (nothing when the document was dropped).
Rebuilt(p) == IF InResults(p) THEN left_docs[p][pre_field(local_field)].v ELSE <<>>
\* d carries every field of part, with part's value.
Agrees(d, part) == \A f \in DOMAIN part : f \in DOMAIN d /\ d[f] = part[f]

\* The (element, right document) pairs in array-element order, then bucket order.
RECURSIVE ExpectedPairs(_, _)
ExpectedPairs(arr, i) ==
    IF i > Len(arr) THEN <<>>
    ELSE (IF Matches(arr[i])
          THEN [j \in 1..Len(BucketOf(arr[i])) |->
                    [e |-> arr[i].v, r |-> BucketOf(arr[i])[j]]]
          ELSE <<>>) \o ExpectedPairs(arr, i + 1)

\* C1: nested-array branch: the rebuilt array has exactly one element per
\* (array element e, right document r of e's bucket) pair, in array-element
\* order then bucket order, and elements without a match contribute nothing,
\* wherever the non-matching elements stand in the array.
C1_FanOutPairs ==
    \A p \in Processed :
        IsNested(p) =>
            LET pairs == ExpectedPairs(OrigArray(p).v, 1)
                out == Rebuilt(p)
            IN /\ Len(out) = Len(pairs)
               /\ \A j \in 1..Len(out) :
                    /\ out[j].t = "dict"
                    /\ Agrees(out[j].v, pairs[j].e)
                    /\ Agrees(out[j].v, Prefixed(pairs[j].r))

\* C2: nested-array branch: a left document is in the output iff some element
\* of its array has a leafKey value in the join index; when present, its
\* parentPath field holds the rebuilt (merged) array, not the original one.
C2_RetainedIffMatch ==
    \A p \in Processed :
        IsNested(p) =>
            /\ InResults(p) <=> \E i \in 1..Len(OrigArray(p).v) : Matches(OrigArray(p).v[i])
            /\ InResults(p) => left_docs[p][pre_field(local_field)] # OrigArray(p)

\* C3: nested-array fan-out content: every output element is an original
\* element plus exactly the prefixed non-identity fields of one right document
\* of its bucket, and carries no field of another right document.
C3_FanOutContent ==
    \A p \in Processed :
        IsNested(p) =>
            \A j \in 1..Len(Rebuilt(p)) :
                \E i \in 1..Len(OrigArray(p).v) :
                    LET e == OrigArray(p).v[i]
                    IN /\ Matches(e)
                       /\ \E n \in 1..Len(BucketOf(e)) :
                            Rebuilt(p)[j] = PyDict(Prefixed(BucketOf(e)[n]) @@ e.v)

IsScalar(p) == ~IsNested(p)
\* left.get(local_field): the full dotted name, looked up directly.
ScalarKey(p) == Get(Orig(p), JoinDots(local_field))
\* The right documents whose foreign field equals key, in right-sequence order.
RightBucket(key) == SelectSeq(right_docs, LAMBDA d : Get(d, foreign_field) = key)
ScalarMatched(p) ==
    IsScalar(p) /\ ScalarKey(p) # None /\ Len(RightBucket(ScalarKey(p))) > 0
BucketFields(b) == UNION {DOMAIN b[j] \ {"_id"} : j \in 1..Len(b)}
\* The last document of bucket b that has field f.
LastWith(b, f) ==
    b[CHOOSE j \in 1..Len(b) :
        f \in DOMAIN b[j] /\ \A m \in (j + 1)..Len(b) : f \notin DOMAIN b[m]]

\* C4: scalar branch with matches: for every non-identity field f of any right
\* document of the matched bucket, the output left document's "<rightName>_f"
\* is f's value in the last right document of the bucket that has f; the
\* right documents' identity field is never copied.
C4_ScalarLastWins ==
    \A p \in Processed :
        ScalarMatched(p) =>
            LET b == RightBucket(ScalarKey(p))
            IN /\ \A f \in BucketFields(b) :
                    Get(left_docs[p], right_collection \o "_" \o f) = LastWith(b, f)[f]
               /\ Get(left_docs[p], right_collection \o "__id")
                    = Get(Orig(p), right_collection \o "__id")

C4_Witness ==
    \E p \in Processed :
        /\ ScalarMatched(p)
        /\ Len(RightBucket(ScalarKey(p))) = 2
        /\ Get(left_docs[p], "right_v") = PyInt(2)
        /\ Get(left_docs[p], "right_w") = PyInt(3)
        /\ Get(left_docs[p], "right__id") = None

\* C5: scalar branch without match: a left document whose local-field value is
\* absent or not a key of the join index is in the output with exactly the
\* fields and values it was fetched with.
C5_ScalarUnmatchedUnchanged ==
    \A p \in Processed :
        (IsScalar(p) /\ ~ScalarMatched(p)) =>
            /\ InResults(p)
            /\ left_docs[p] = Orig(p)
            /\ (pc = "done" /\ ~HasError(response)) =>
                    \E i \in 1..Len(response.documents) :
                        results[i] = p /\ response.documents[i] = Orig(p)

C5_Witness ==
    /\ pc = "done"
    /\ DOMAIN right_index # {}
    /\ \E p \in Processed :
        /\ IsScalar(p)
        /\ ScalarKey(p) = None
        /\ InResults(p)
    /\ \E p \in Processed :
        /\ IsScalar(p)
        /\ ScalarKey(p) # None
        /\ ~ScalarMatched(p)
        /\ InResults(p)

\* C6: the output is a subsequence of the left sequence in the same relative
\* order, no left document appears twice, every scalar-branch left document
\* appears, and total_count is the number of output documents.
C6_OutputOrder ==
    /\ \A i \in 1..Len(results) : results[i] \in 1..Len(left_docs)
    /\ \A i, j \in 1..Len(results) : i < j => results[i] < results[j]
    /\ \A p \in Processed : IsScalar(p) => InResults(p)
    /\ (pc = "done" /\ ~HasError(response)) =>
            /\ response.total_count = Len(response.documents)
            /\ Len(response.documents) = Len(results)
            /\ \A i \in 1..Len(results) : response.documents[i] = left_docs[results[i]]

C6_Witness ==
    /\ pc = "done"
    /\ ~HasError(response)
    /\ Len(left_resp.documents) = 2
    /\ response.total_count = 2
    /\ response.documents[1] # response.documents[2]
    /\ IsNested(1)
    /\ IsScalar(2)

\* C7 as claimed: a failed left fetch gives an error naming the left side, a
\* failed right fetch gives an error naming the right side; in either case no
\* documents are returned, the index is not built and each side is fetched
\* exactly once.
C7_Original ==
    pc = "done" =>
        /\ HasError(left_resp) =>
                response = [error |-> "left query failed: " \o left_resp.error]
        /\ HasError(right_resp) =>
                response = [error |-> "right query failed: " \o right_resp.error]
        /\ (HasError(left_resp) \/ HasError(right_resp)) =>
                /\ HasError(response)
                /\ pos = 0 /\ right_index = <<>> /\ results = <<>>
                /\ fetches = [left |-> 1, right |-> 1]

\* C7 amended: the left side is reported first, so a failed right fetch is
\* named only when the left fetch succeeded; when both fail the error names
\* the left side.  The rest is as claimed.
C7_FailureNamesSide ==
    pc = "done" =>
        /\ HasError(left_resp) =>
                response = [error |-> "left query failed: " \o left_resp.error]
        /\ (~HasError(left_resp) /\ HasError(right_resp)) =>
                response = [error |-> "right query failed: " \o right_resp.error]
        /\ (HasError(left_resp) \/ HasError(right_resp)) =>
                /\ HasError(response)
                /\ pos = 0 /\ right_index = <<>> /\ results = <<>>
                /\ fetches = [left |-> 1, right |-> 1]

C7_Witness ==
    /\ pc = "done"
    /\ HasError(left_resp)
    /\ HasError(right_resp)
    /\ left_resp.error # right_resp.error
    /\ response = [error |-> "left query failed: " \o left_resp.error]
    /\ fetches = [left |-> 1, right |-> 1]

----------------------------------------------------------------------------
\* Advisor claims.
FailedCall(x) == HasError(x)
AnyCollaboratorFailed ==
    \/ FailedCall(explain_output)
    \/ FailedCall(indexes)
    \/ FailedCall(indexes_stats)
    \/ FailedCall(collections_stats)

\* C8: no partial bundle: whenever one of the four collaborator calls
\* (explain, list indexes, index usage stats, collection stats) of an advise
\* operation fails, the operation's result is an error, never a bundle in
\* which one field holds a failure beside populated ones.
C8_NoPartialBundle ==
    (apc = "done" /\ AnyCollaboratorFailed) => HasError(aresult)

\* C9: when the explain call fails, the operation returns that collaborator's
\* failure (its message), not an error raised later by the analysis step.
C9_ExplainErrorPropagated ==
    (apc = "done" /\ FailedCall(explain_output)) =>
        (HasError(aresult) /\ aresult.error = explain_output.error)

----------------------------------------------------------------------------
\* Normalizer claims.
RangeOperatorNames == {"$gt", "$gte", "$lt", "$lte", "$in", "$nin", "$regex"}
\* The value is a sub-mapping with at least one range/set operator.
IsRangeValue(v) == v.t = "dict" /\ DOMAIN v.v \cap RangeOperatorNames # {}
Occurrences(names, k) == Cardinality({i \in 1..Len(names) : names[i] = k})
\* The position of field k in the filter.
FilterPos(k) == CHOOSE i \in 1..Len(query) : query[i].k = k
InFilterOrder(names) ==
    \A i, j \in 1..Len(names) : i < j => FilterPos(names[i]) < FilterPos(names[j])

\* C10: every field of the filter is in exactly one of eqFields and
\* rangeFields; it is in rangeFields iff its value is a sub-mapping with at
\* least one of $gt, $gte, $lt, $lte, $in, $nin, $regex; each bucket keeps the
\* filter's declaration order, so a filter of scalar-valued fields only gives
\* eqFields = all fields in order and rangeFields empty.
C10_Classification ==
    npc = "done" =>
        /\ \A i \in 1..Len(query) :
            /\ Occurrences(shape.eqFields, query[i].k)
                + Occurrences(shape.rangeFields, query[i].k) = 1
            /\ Occurrences(shape.rangeFields, query[i].k) = 1 <=> IsRangeValue(query[i].v)
        /\ \A i \in 1..Len(shape.eqFields) : \E n \in 1..Len(query) : query[n].k = shape.eqFields[i]
        /\ \A i \in 1..Len(shape.rangeFields) : \E n \in 1..Len(query) : query[n].k = shape.rangeFields[i]
        /\ InFilterOrder(shape.eqFields)
        /\ InFilterOrder(shape.rangeFields)
        /\ (\A i \in 1..Len(query) : query[i].v.t # "dict") =>
                /\ shape.eqFields = [i \in 1..Len(query) |-> query[i].k]
                /\ shape.rangeFields = <<>>

C10_Witness ==
    /\ npc = "done"
    /\ Len(query) = 2
    /\ query[1].v = PyDict("$regex" :> PyInt(18))
    /\ query[2].v = PyDict("$eq" :> PyInt(1))
    /\ shape.rangeFields = <<query[1].k>>
    /\ shape.eqFields = <<query[2].k>>

\* ---------------------------------------------------------------------
\* Claims about normalize_query_shape's key
\* ---------------------------------------------------------------------

\* The names written one after another, each but the first behind a comma.
RECURSIVE CommaSeparated(_, _)
CommaSeparated(names, n) ==
    IF n = 0 THEN ""
    ELSE IF n = 1 THEN names[1]
    ELSE CommaSeparated(names, n - 1) \o "," \o names[n]

\* C11: for every filter mapping, shapeKey is exactly "EQ[" + the returned
\* eqFields joined by "," + "]|RANGE[" + the returned rangeFields joined by
\* "," + "]"; a filter with the single range field age gives "EQ[]|RANGE[age]".
C11_ShapeKey ==
    npc = "done" =>
        /\ shape.shapeKey =
             "EQ[" \o CommaSeparated(shape.eqFields, Len(shape.eqFields))
                \o "]|RANGE["
                \o CommaSeparated(shape.rangeFields, Len(shape.rangeFields)) \o "]"
        /\ query = <<[k |-> "age", v |-> PyDict("$gte" :> PyInt(18))]>>
              => shape.shapeKey = "EQ[]|RANGE[age]"

C11_Witness ==
    /\ npc = "done"
    /\ Len(query) = 2
    /\ query[1] = [k |-> "age", v |-> PyDict("$gte" :> PyInt(18))]
    /\ query[2] = [k |-> "tags", v |-> PyDict("$in" :> PyInt(18))]
    /\ shape.shapeKey = "EQ[]|RANGE[age,tags]"

\* C12: query_shape returns an error if and only if its input is not a
\* mapping; every mapping, also one with a key named "filter" whatever that
\* key's value, yields a shape and not an error.
C12_ErrorIffNotMapping ==
    qpc = "done" => (HasError(qresult) <=> qinput.t # "map")

AnaReturned == anpc = "done" /\ ~HasRaised(an_result)
Entries == an_result.value.stagesAnalysis
IsStaged == "stages" \in DOMAIN an_explain.v
\* What the i-th entry is computed from: the i-th stage's detail, or the
\* explain output itself.
PlanSource(i) == IF IsStaged THEN an_explain.v["stages"][i].detail ELSE an_explain
WinningPlanOf(i) ==
    GetOr(GetOr(PlanSource(i).v, "queryPlanner", EmptyDict).v, "winningPlan", EmptyDict)
StatsOf(i) == GetOr(PlanSource(i).v, "executionStats", EmptyDict)

\* The nodes one child link below a node.
Children(node) ==
    IF node.t # "dict" THEN {}
    ELSE {node.v[k] : k \in SingleLinks \cap DOMAIN node.v}
         \cup UNION {{node.v[k].v[i] : i \in 1..Len(node.v[k].v)} :
                        k \in {l \in SequenceLinks \cap DOMAIN node.v : node.v[l].t = "list"}}

RECURSIVE ReachableWithin(_, _)
ReachableWithin(nodes, n) ==
    IF n = 0 THEN nodes
    ELSE ReachableWithin(nodes \cup UNION {Children(x) : x \in nodes}, n - 1)

\* Some node at most MaxDepth + 1 links below the plan, the plan included, has
\* stage SORT.
SortReachable(plan) ==
    \E x \in ReachableWithin({plan}, MaxDepth + 1) :
        x.t = "dict" /\ "stage" \in DOMAIN x.v /\ x.v["stage"] = PyStr("SORT")

SortBelowShards ==
    Explain(PlanAlong(<<"inputStage", "shards", "inputStage", "innerStage">>, Leaf("SORT")),
            Stats(1, 1, 1))

\* C14: for every stage, triggersSort is true iff some node reachable from
\* winningPlan through any chain of the child links inputStage, innerStage,
\* outerStage (one child) or inputStages, shards (a sequence of children) has
\* stage SORT; a SORT node three levels below a sequence-valued link is found.
C14_TriggersSort ==
    AnaReturned =>
        /\ \A i \in 1..Len(Entries) :
                Entries[i].healthMetrics.triggersSort <=> SortReachable(WinningPlanOf(i))
        /\ an_explain = SortBelowShards => Entries[1].healthMetrics.triggersSort

C14_Witness ==
    /\ AnaReturned
    /\ an_explain = SortBelowShards
    /\ Entries[1].healthMetrics.triggersSort

\* The plan's inputStage child has a keyPattern with at least one field.
HasKeyPattern(plan) ==
    /\ "inputStage" \in DOMAIN plan.v
    /\ plan.v["inputStage"].t = "dict"
    /\ "keyPattern" \in DOMAIN plan.v["inputStage"].v
    /\ plan.v["inputStage"].v["keyPattern"].t = "dict"
    /\ DOMAIN plan.v["inputStage"].v["keyPattern"].v # {}

\* C15: covered is false for a stage unless a projection was supplied and
\* winningPlan's inputStage child has a non-empty keyPattern; a projection
\* whose flags are all falsy over an inputStage with no keyPattern or an
\* empty one gives covered = false.
C15_CoveredGuard ==
    AnaReturned =>
        \A i \in 1..Len(Entries) :
            Entries[i].healthMetrics.covered =>
                an_projection # None /\ HasKeyPattern(WinningPlanOf(i))

\* The fields a projection asks for: every field with a truthy flag, and _id
\* unless the projection excludes it.
ProjectedFields(proj) ==
    {k \in DOMAIN proj.v : Truthy(proj.v[k])}
    \cup (IF "_id" \in DOMAIN proj.v /\ ~Truthy(proj.v["_id"]) THEN {} ELSE {"_id"})

\* C16: when a projection (of at least one field) is supplied and the
\* inputStage has a non-empty keyPattern, covered is true iff the projected
\* fields are a subset of the keyPattern's fields, where the projected fields
\* are every field with a truthy flag plus _id whenever _id is requested or
\* not explicitly excluded.
C16_CoveredSubset ==
    AnaReturned =>
        \A i \in 1..Len(Entries) :
            Truthy(an_projection) /\ HasKeyPattern(WinningPlanOf(i)) =>
                (Entries[i].healthMetrics.covered <=>
                    ProjectedFields(an_projection)
                        \subseteq DOMAIN WinningPlanOf(i).v["inputStage"].v["keyPattern"].v)

\* A counter of the i-th entry's executionStats, 0 when it is missing.
Counter(i, name) == GetOr(StatsOf(i).v, name, PyInt(0))
NonNegativeCounters(i) ==
    \A name \in {"nReturned", "totalDocsExamined", "totalKeysExamined"} :
        Counter(i, name).t = "int" /\ Counter(i, name).v >= 0
\* The ratio r is the sentinel iff b = 0 and otherwise the quotient a / b.
IsRatio(r, a, b) ==
    /\ r.inf <=> b = 0
    /\ b # 0 => r.den > 0 /\ r.num * b = a * r.den

\* C17: for every stage with non-negative integer counters,
\* amplificationRatio is the positive-infinity sentinel iff nReturned = 0 and
\* otherwise totalDocsExamined / nReturned; keyDocRatio is the sentinel iff
\* totalDocsExamined = 0 and otherwise totalKeysExamined / totalDocsExamined.
C17_RatioSentinels ==
    AnaReturned =>
        \A i \in 1..Len(Entries) :
            NonNegativeCounters(i) =>
                /\ IsRatio(Entries[i].healthMetrics.amplificationRatio,
                           Counter(i, "totalDocsExamined").v, Counter(i, "nReturned").v)
                /\ IsRatio(Entries[i].healthMetrics.keyDocRatio,
                           Counter(i, "totalKeysExamined").v,
                           Counter(i, "totalDocsExamined").v)

C17_Witness ==
    /\ AnaReturned
    /\ an_explain = Explain(FetchPlan, Stats(0, 2, 1))
    /\ Entries[1].healthMetrics.amplificationRatio.inf
    /\ Entries[1].healthMetrics.keyDocRatio = [inf |-> FALSE, num |-> 1, den |-> 2]

\* A stage-wrapper key without its leading sigil, and the upper-case form of
\* the engine's stage names.
WithoutLeadingSigil(key) ==
    IF SubSeq(key, 1, 1) = "$" THEN SubSeq(key, 2, Len(key)) ELSE key
UpperCased(name) ==
    CASE name = "cursor" -> "CURSOR"
      [] name = "sort" -> "SORT"
      [] name = "group" -> "GROUP"

\* The stage name the i-th entry is to carry.
ExpectedStage(i) ==
    IF "stage" \in DOMAIN WinningPlanOf(i).v THEN WinningPlanOf(i).v["stage"]
    ELSE IF IsStaged
         THEN PyStr(UpperCased(WithoutLeadingSigil(an_explain.v["stages"][i].name)))
         ELSE PyStr("UNKNOWN")

\* C18: an explain output without a top-level stages collection yields
\* exactly one entry; one with stages yields exactly one entry per element of
\* stages, the i-th entry computed from the i-th stage, whose stage name is
\* winningPlan.stage when present and otherwise the stage-wrapper key with
\* its leading sigil stripped and upper-cased.
C18_OutputShape ==
    AnaReturned =>
        /\ Len(Entries) = IF IsStaged THEN Len(an_explain.v["stages"]) ELSE 1
        /\ \A i \in 1..Len(Entries) :
            /\ Entries[i].stage = ExpectedStage(i)
            /\ Entries[i].healthMetrics.nReturned = Counter(i, "nReturned")
            /\ Entries[i].healthMetrics.totalDocsExamined = Counter(i, "totalDocsExamined")
            /\ Entries[i].healthMetrics.totalKeysExamined = Counter(i, "totalKeysExamined")

C18_Witness ==
    /\ AnaReturned
    /\ IsStaged
    /\ Len(Entries) = 2
    /\ an_explain.v["stages"][1] = [name |-> "$group", detail |-> Explain(FetchPlan, Stats(2, 4, 6))]
    /\ an_explain.v["stages"][2] = [name |-> "$sort", detail |-> EmptyDict]
    /\ Entries[1].stage = PyStr("FETCH")
    /\ Entries[1].healthMetrics.totalKeysExamined = PyInt(6)
    /\ Entries[2].stage = PyStr("SORT")
    /\ Entries[2].healthMetrics.totalKeysExamined = PyInt(0)

\* C19: for every explain structure that is a mapping, analysis completes and
\* returns metrics, each missing or unexpected inner field (also one that is
\* null or no mapping, or a stage wrapper that is an empty mapping) resolved
\* to a default; analysis never aborts with an error.
C19_NeverAborts ==
    anpc = "done" => ~HasRaised(an_result)

\* ---------------------------------------------------------------------
\* Claim about the traversal of a plan with a cycle
\* ---------------------------------------------------------------------

\* C20: the sort-detection traversal of winningPlan ends with a boolean
\* result on every input, also on a plan in which a node is reachable from
\* itself through child links.
C20_BooleanResult ==
    tpc = "done" => ~HasRaised(tresult) /\ tresult.value \in BOOLEAN

\* ---------------------------------------------------------------------
\* Claims about the join index, the branches, the order of the steps and
\* the inputs
\* ---------------------------------------------------------------------

\* The right document d is in the bucket of key.
InBucket(d, key) == \E j \in 1..Len(right_index[key]) : right_index[key][j] = d

\* C21: the join index contains a right document iff that document has the
\* foreign field, whatever its value; each indexed document is in exactly one
\* bucket, the one keyed by its foreign-field value, and the documents of a
\* bucket are in right-sequence order.
C21_IndexContents ==
    pc = "indexed" =>
        /\ \A i \in 1..Len(right_docs) :
            LET d == right_docs[i]
            IN /\ foreign_field \in DOMAIN d
                    <=> \E key \in DOMAIN right_index : InBucket(d, key)
               /\ \A key \in DOMAIN right_index :
                    InBucket(d, key) => key = d[foreign_field]
        /\ \A key \in DOMAIN right_index :
            right_index[key]
                = SelectSeq(right_docs,
                            LAMBDA d : foreign_field \in DOMAIN d /\ d[foreign_field] = key)

\* The value is a sequence of mappings: a list of at least one element, all
\* of them dicts.
IsSequenceOfMappings(x) ==
    /\ x.t = "list"
    /\ Len(x.v) > 0
    /\ \A i \in 1..Len(x.v) : x.v[i].t = "dict"

\* C22: the nested-array branch is taken only when the value at parentPath on
\* the left document is a sequence of mappings; every other left document
\* (parentPath absent, a scalar, an empty sequence, a sequence with elements
\* that are no mappings) takes the scalar branch and is in the output.
C22_BranchSelection ==
    \A p \in Processed :
        ~IsSequenceOfMappings(OrigArray(p)) =>
            /\ InResults(p)
            /\ Agrees(left_docs[p], Orig(p))

\* The collaborator requests of one advise operation, in the order of the
\* code, and the analysis of the explain output the operation holds.
RequestOrder == <<"explain", "list_indexes", "index_stats", "collection_stats">>
Requested(n) == calls = SubSeq(RequestOrder, 1, n)
AnalysisOfExplain == analyze_explain_metrics(explain_output, projection)
AnalysisDone ==
    /\ ~HasRaised(AnalysisOfExplain)
    /\ analysis = AnalysisOfExplain.value
ReturnedBundle == apc = "done" /\ ~HasError(aresult)

C23_EarlyEnd ==
    /\ apc = "done"
    /\ HasError(aresult)
    /\ calls = <<"explain">>

\* The join index has been built (the merge loop starts right after it).
IndexBuilt == pos > 0
BothFetched == fetches = [left |-> 1, right |-> 1]
BothSucceeded == ~HasError(left_resp) /\ ~HasError(right_resp)

\* C24: join fetch ordering: the join index is built and the merge loop runs
\* only after both the left and the right fetch have completed and both
\* succeeded; the index every left document is merged against is the index
\* of the whole fetched right side, and before the two fetches are checked
\* there is no index and no merged document.
C24_FetchOrdering ==
    /\ IndexBuilt =>
           /\ BothFetched
           /\ BothSucceeded
           /\ pc \in {"join", "done"}
           /\ right_docs = right_resp.documents
           /\ right_index = BuildRightIndex(right_resp.documents, 1, <<>>)
    /\ pc \in {"idle", "fetch_left", "fetch_right", "check"} =>
           /\ ~IndexBuilt
           /\ right_index = <<>>
           /\ results = <<>>
    /\ (pc = "done" /\ ~HasError(response)) => IndexBuilt

\* A left document has been merged with a right document after both fetches.
C24_Witness ==
    /\ pc = "join"
    /\ pos = 2
    /\ BothFetched
    /\ Len(right_resp.documents) = 2
    /\ left_docs[1] # left_resp.documents[1]
    /\ results = <<1>>

\* The right side as the join holds it is the right side as it was fetched:
\* the same documents with the same fields and values, in the same order,
\* and each bucket of the index holds those documents.
RightSideAsFetched ==
    /\ right_docs = right_resp.documents
    /\ right_index = BuildRightIndex(right_resp.documents, 1, <<>>)
\* No step of a running call writes to the call's input.
InputsKept ==
    /\ anpc = "called" => an_explain' = an_explain
    /\ npc = "called" => query' = query
    /\ pc = "join" =>
           /\ right_docs' = right_docs
           /\ right_resp' = right_resp
           /\ right_index' = right_index

\* C25: read-only inputs: analyzing an explain output leaves the explain
\* structure unchanged, normalizing a filter leaves the filter unchanged, and
\* a join leaves every right document (fields and values) and the order of
\* the right sequence unchanged, whichever branch each left document takes;
\* only left documents are modified.
C25_ReadOnlyInputs ==
    /\ [](IndexBuilt => RightSideAsFetched)
    /\ [][InputsKept]_vars

\* A join has returned after a left document of the nested-array branch was
\* rewritten and one of the scalar branch was passed through, over a right
\* side of two documents.
C25_Witness ==
    /\ pc = "done"
    /\ ~HasError(response)
    /\ Len(right_docs) = 2
    /\ Len(left_docs) = 2
    /\ IsNested(1)
    /\ IsScalar(2)
    /\ left_docs[1] # left_resp.documents[1]
    /\ RightSideAsFetched

\* An analysis has returned metrics for a plan of several stages.
C25_AnalyzerWitness ==
    /\ anpc = "done"
    /\ ~HasRaised(an_result)
    /\ an_explain.t = "dict"
    /\ an_explain.v # <<>>

\* A filter with a range field has been normalized.
C25_NormalizerWitness ==
    /\ npc = "done"
    /\ Len(query) > 0
    /\ Len(shape.rangeFields) > 0

====
